---- MODULE Spec2Model ----
(***************************************************************************)
(* Market-regime classification pipeline (SithHades/regime-classifier).    *)
(*                                                                         *)
(*   sentinel      exchange frames -> raw_candles table + Redis stream     *)
(*   quant_engine  consumer group on the stream -> regime:{sym}:{tf} keys  *)
(*   lab           periodic trainer -> model_registry                      *)
(*                                                                         *)
(* Numeric candle bodies (open/high/low/close/volume) are not carried: a   *)
(* candle is its identity (symbol, exchange, timeframe, timestamp).  The   *)
(* feature frame is modelled by which of its cells are NaN and by the row  *)
(* it ends at, which is what the pipeline's control flow depends on.       *)
(***************************************************************************)
EXTENDS Integers, Sequences, FiniteSets, TLC

VARIABLES
    \* ---- sentinel (ingestor) ----
    raw_candles,     \* regime_classifier.raw_candles: rows in heap (insertion) order
    stream,          \* Redis stream market_data_feed: entries in append order, id = index
    last_heartbeat,  \* HealthMonitor.last_heartbeat
    now,             \* wall clock, seconds since process start
    received,        \* number of frames handed to handle_message so far
    msg,             \* the frame handle_message handled last
    sentinel_log,    \* log lines emitted while handling msg
    \* ---- quant_engine (classifier worker) ----
    candles,         \* market_data.candles: the table the worker's history query reads
    MODE,            \* config.MODE
    cursor,          \* consumer group's last-delivered id
    pending,         \* consumer group's pending entries list (delivered, not acked)
    inflight,        \* id of the entry run_service is handling, 0 when between entries
    kv,              \* Redis keys regime:{symbol}:{timeframe}
    worker_log,      \* the worker's log: worker_log[id] = lines emitted handling entry id
    centroids_read,  \* what the last get_latest_centroids call returned (and a call toggle)
    \* ---- lab (trainer) ----
    model_registry,  \* committed rows of model_registry
    session,         \* the trainer's open SQLAlchemy session (uncommitted work)
    trainer_pc,      \* position of train_model
    \* ---- RegimeClassifier called on one feature row ----
    cls_state,       \* the feature row df.iloc[-1] handed to the classifier
    cls_thresholds,  \* config.VOLATILITY_THRESHOLD and config.TREND_THRESHOLD
    cls_model,       \* what get_latest_centroids returns to _classify_ml
    cls_result,      \* what the classifier returned, None before the call
    cls_vector,      \* the feature vector _classify_ml compared with the centroids
    \* ---- BinanceSentinel.start ----
    ws,              \* where start() is: "connecting", "open" (awaiting recv),
                     \* "handling", "sleeping" or "returned"
    backoff,         \* the local backoff of start()
    slept,           \* seconds of the last asyncio.sleep(backoff)
    ws_errors,       \* WebSocket errors since the last message was received
    running,         \* BinanceSentinel.running
    in_flight,       \* the frame start() received and is handling, NoMsg if none
    sleep_left,      \* seconds left of the asyncio.sleep(backoff) in progress
    \* ---- train_model, auto-labelling ----
    fit,             \* the fitted scaler and the k centroids (scaled space)
    regime_labels,   \* the dict regime_labels, None before the labelling ran
    \* ---- gateway: GET /v1/regime ----
    gw_request,      \* the query parameters of the last request
    gw_response,     \* the response to it
    \* ---- parse_candle_from_msg on the two serializations ----
    wire_candle,     \* the candle a producer serialized
    parsed_candle,   \* what the worker parsed from its flat and from its payload entry
    \* ---- quant engine: the service loop of run_service ----
    engine_running,  \* the global flag running of quant_engine.main
    engine_pc,       \* where run_service is: "top", "reading", "handling", "closed"
    \* ---- feature frames of the trainer and of the worker ----
    df_close,        \* the column close of one symbol's candles, oldest first
    df_features,     \* calculate_features(df): one row of features per candle
    df_clean,        \* the rows of df_features that dropna() keeps, and the matrix X
    df_worker        \* calculate_technical_indicators(candles): its last row

sentinel_vars == <<raw_candles, stream, last_heartbeat, received, msg, sentinel_log>>
worker_vars == <<cursor, pending, inflight, kv, worker_log, centroids_read>>
trainer_vars == <<model_registry, session, trainer_pc>>
classifier_vars == <<cls_state, cls_thresholds, cls_model, cls_result, cls_vector>>
connector_vars == <<ws, backoff, slept, ws_errors, running, in_flight, sleep_left>>
labelling_vars == <<fit, regime_labels>>
gateway_vars == <<gw_request, gw_response>>
codec_vars == <<wire_candle, parsed_candle>>
service_vars == <<engine_running, engine_pc>>
features_vars == <<df_close, df_features, df_clean, df_worker>>
data_vars == <<classifier_vars, labelling_vars, gateway_vars, codec_vars, features_vars>>
call_vars == <<data_vars, service_vars>>
vars == <<raw_candles, stream, last_heartbeat, now, received, msg, sentinel_log,
          candles, MODE, cursor, pending, inflight, kv, worker_log,
          centroids_read, model_registry, session, trainer_pc,
          cls_state, cls_thresholds, cls_model, cls_result, cls_vector,
          ws, backoff, slept, ws_errors, running, in_flight, sleep_left,
          fit, regime_labels, gw_request, gw_response, wire_candle, parsed_candle,
          engine_running, engine_pc, df_close, df_features, df_clean, df_worker>>

(***************************************************************************)
(* Bounds of the model.                                                    *)
(***************************************************************************)
MaxFrames == 2
MaxTicks == 2
MaxModels == 2
MaxFeature == 3
MaxSlope == 1
MaxWsErrors == 7
MaxZ == 1
MaxPrice == 9
\* the longest series of closes the feature frames are computed on
MaxRows == 52
\* the configured maximum length of the stream, scaled to the model's frames
StreamMaxLen == 1

(***************************************************************************)
(* Program constants.                                                      *)
(***************************************************************************)
HistoryLimit == 100
window_size == 100

\* Optional values: None is the empty set, a present value v is {v}
None == {}
Some(v) == {v}
The(o) == CHOOSE v \in o : TRUE

(***************************************************************************)
(* Symbols are character sequences, so that str.replace can be computed.   *)
(***************************************************************************)
USDT == <<"U", "S", "D", "T">>
DashUSD == <<"-", "U", "S", "D">>
BTCUSDT == <<"B", "T", "C">> \o USDT
USDTTRY == USDT \o <<"T", "R", "Y">>
BTC_USD == <<"B", "T", "C">> \o DashUSD

RawSymbols == {BTCUSDT, USDTTRY}

\* Candle.timeframe is not set by the connector: the model's default applies.
DefaultTimeframe == "1h"

\* Hours of history an earlier run left in the candle tables (rows 1..Preloaded).
Preloaded == 100

\* kline open times (hours): the last preloaded hour and the two after it
FrameTimes == {Preloaded, Preloaded + 1, Preloaded + 2}

MaxTime == Preloaded + 2

\* python str.replace("USDT", "-USD"): every non-overlapping occurrence, left to right
RECURSIVE str_replace(_)
str_replace(s) ==
    IF Len(s) < Len(USDT) THEN s
    ELSE IF SubSeq(s, 1, Len(USDT)) = USDT
         THEN DashUSD \o str_replace(SubSeq(s, Len(USDT) + 1, Len(s)))
         ELSE <<Head(s)>> \o str_replace(Tail(s))

normalize_symbol(raw_symbol) == str_replace(raw_symbol)

(***************************************************************************)
(* Exchange frames.  kind: "not_json" (json.loads raises), "no_k" (JSON    *)
(* without a kline field), "kline".  enveloped: the combined-stream        *)
(* {"stream":..,"data":..} wrapper is present.  x: the kline's x field.    *)
(* complete: every field the connector reads is present and numeric.       *)
(***************************************************************************)
KlineFrames ==
    [kind : {"kline"}, enveloped : BOOLEAN, x : {"true", "false", "absent"},
     s : RawSymbols, t : FrameTimes, complete : BOOLEAN]

MalformedFrames ==
    [kind : {"not_json", "no_k"}, enveloped : {FALSE}, x : {"absent"},
     s : {BTCUSDT}, t : {Preloaded}, complete : {FALSE}]

Frames == KlineFrames \cup MalformedFrames

NoMsg == [kind |-> "none", enveloped |-> FALSE, x |-> "absent", s |-> <<>>, t |-> 0,
          complete |-> FALSE]

\* nothing fitted, no request made, nothing serialized
NoFit == [scaler_mean |-> <<>>, scaler_scale |-> <<>>, centroids |-> <<>>]
NoRequest == [symbol |-> <<>>, timeframe |-> "", mock |-> FALSE]
NoResponse == [status |-> 0, body |-> None]
NoWire == [symbol |-> <<>>, exchange |-> "", timeframe |-> "", timestamp |-> 0, close |-> 0]
NotParsed == [flat |-> <<>>, payload |-> <<>>]

\* variant of is_closed: a kline without an x field counts as closed
is_closed_unless_false(m) == m.x # "false"

\* kline.get("x", False)
is_closed(m) == m.x = "true"

\* Candle(event_type="candle_close", symbol=..., exchange="BINANCE", timestamp=ts, ...)
CandleOf(m) ==
    [symbol |-> normalize_symbol(m.s), exchange |-> "BINANCE",
     timeframe |-> DefaultTimeframe, timestamp |-> m.t]

KeyOf(c) == <<c.timestamp, c.symbol, c.exchange, c.timeframe>>

RowsWithKey(table, k) == {i \in 1..Len(table) : KeyOf(table[i]) = k}

\* variant of insert_candle: a plain INSERT into a table without the unique key
insert_candle_always(table, candle) == Append(table, candle)

\* INSERT ... ON CONFLICT (time, symbol, exchange, timeframe) DO NOTHING
insert_candle(table, candle) ==
    IF RowsWithKey(table, KeyOf(candle)) # {} THEN table ELSE Append(table, candle)

\* producer.publish_candle: XADD of the candle's flat field map
FlatEntry(candle) == [form |-> "flat", candle |-> candle]

publish_candle(s, candle) == Append(s, FlatEntry(candle))

\* Log lines.  An error line carries the exception it reports.
LogError(cause) == <<"Error processing message", cause>>
LogPublishFailed == <<"Failed to publish to Redis">>
LogProcessed == <<"Processed candle">>

\* variant of parse_raises: only json.loads can raise
parse_raises_json_only(m) == m.kind = "not_json"

\* json.loads, kline["s"], kline["t"], float(kline["o"]) ... raise on a frame that is
\* not JSON or whose closed kline lacks a field or carries a non-numeric one
parse_raises(m) ==
    \/ m.kind = "not_json"
    \/ m.kind = "kline" /\ is_closed(m) /\ ~m.complete

\* variant of insert_raises: the failure is logged and swallowed
insert_swallowed(db_ok) == FALSE

\* await db.insert_candle(candle) has no try block of its own
insert_raises(db_ok) == ~db_ok

\* variant of publish_raises: the failure reaches the caller
publish_propagates(xadd_ok) == ~xadd_ok

\* producer.publish_candle catches and logs every exception of the XADD
publish_raises(xadd_ok) == FALSE

\* variant of handler_catches: except (ValueError, KeyError)
handler_catches_parse_only(cause) == cause = "parse"

\* except Exception as e, around the whole body of handle_message
handler_catches(cause) == TRUE

\* logger.error("WebSocket connection error: ...") of start(), where an exception
\* leaving handle_message would end
LogWsError(cause) == <<"WebSocket connection error", cause>>

(***************************************************************************)
(* BinanceSentinel.handle_message.  db_ok / xadd_ok: whether the INSERT    *)
(* and the XADD succeed on this call.                                      *)
(***************************************************************************)
handle_message(m, db_ok, xadd_ok) ==
    LET dropped == m.kind = "no_k" \/ (m.kind = "kline" /\ ~is_closed(m))
        candle == CandleOf(m)
        \* the exception that ends the try block, if any
        exc == IF parse_raises(m) THEN {"parse"}
               ELSE IF insert_raises(db_ok) THEN {"insert_candle"}
               ELSE IF publish_raises(xadd_ok) THEN {"publish"}
               ELSE {}
        reaches_publish == exc \cap {"parse", "insert_candle"} = {}
        error_lines == {IF handler_catches(cause) THEN LogError(cause)
                        ELSE LogWsError(cause) : cause \in exc}
    IN  /\ received < MaxFrames
        /\ received' = received + 1
        /\ msg' = m
        /\ IF dropped
           THEN /\ sentinel_log' = {}
                /\ UNCHANGED <<raw_candles, stream, last_heartbeat>>
           ELSE /\ raw_candles' = IF ~parse_raises(m) /\ db_ok
                                  THEN insert_candle(raw_candles, candle)
                                  ELSE raw_candles
                /\ stream' = IF reaches_publish /\ xadd_ok
                             THEN publish_candle(stream, candle)
                             ELSE stream
                /\ last_heartbeat' = IF exc = {} THEN now ELSE last_heartbeat
                /\ sentinel_log' =
                       error_lines
                       \cup (IF ~parse_raises(m) /\ ~db_ok /\ ~insert_raises(db_ok)
                             THEN {LogError("insert_candle")} ELSE {})
                       \cup (IF reaches_publish /\ ~xadd_ok THEN {LogPublishFailed} ELSE {})
                       \cup (IF exc = {} THEN {LogProcessed} ELSE {})
        /\ UNCHANGED <<now, candles, MODE, worker_vars, trainer_vars, call_vars>>

OnMessage == \E m \in Frames, db_ok \in BOOLEAN, xadd_ok \in BOOLEAN :
    handle_message(m, db_ok, xadd_ok) /\ UNCHANGED connector_vars

\* min(backoff * 2, 60)
BackoffCap == 60

Min(a, b) == IF a <= b THEN a ELSE b

\* backoff = min(backoff * 2, 60)
next_backoff(b) == Min(b * 2, BackoffCap)

\* while self.running: where start() goes when it reaches a loop condition
loop_or_return(inside) == IF running THEN inside ELSE "returned"

\* the except block of start(): log, then await asyncio.sleep(backoff)
on_ws_error ==
    /\ ws_errors < MaxWsErrors
    /\ slept' = backoff
    /\ sleep_left' = backoff
    /\ ws' = "sleeping"
    /\ ws_errors' = ws_errors + 1
    /\ UNCHANGED <<backoff, running, in_flight, sentinel_vars, now, candles, MODE,
                   call_vars, worker_vars, trainer_vars>>

\* a second of asyncio.sleep(backoff) passes
SleepTick ==
    /\ ws = "sleeping"
    /\ sleep_left > 0
    /\ sleep_left' = sleep_left - 1
    /\ UNCHANGED <<ws, backoff, slept, ws_errors, running, in_flight, sentinel_vars, now,
                   candles, MODE, call_vars, worker_vars, trainer_vars>>

\* asyncio.sleep(backoff) is over: double the backoff, back to the loop condition
WakeUp ==
    /\ ws = "sleeping"
    /\ sleep_left = 0
    /\ backoff' = next_backoff(backoff)
    /\ ws' = loop_or_return("connecting")
    /\ UNCHANGED <<slept, ws_errors, running, in_flight, sleep_left, sentinel_vars, now,
                   candles, MODE, call_vars, worker_vars, trainer_vars>>

\* websockets.connect(self.url) succeeds: backoff = 1, then the inner loop condition
ConnectOk ==
    /\ ws = "connecting"
    /\ ws' = loop_or_return("open")
    /\ backoff' = 1
    /\ UNCHANGED <<slept, ws_errors, running, in_flight, sleep_left, sentinel_vars, now,
                   candles, MODE, call_vars, worker_vars, trainer_vars>>

\* stop(): self.running = False, whatever start() is awaiting
Stop ==
    /\ running
    /\ ws # "returned"
    /\ running' = FALSE
    /\ UNCHANGED <<ws, backoff, slept, ws_errors, in_flight, sleep_left, sentinel_vars, now,
                   candles, MODE, call_vars, worker_vars, trainer_vars>>

\* websockets.connect(self.url) raises
ConnectFails == ws = "connecting" /\ on_ws_error

\* ws.recv() raises
RecvFails == ws = "open" /\ on_ws_error

LIVENESS_THRESHOLD_SECONDS == 60

\* variant of is_healthy: a heartbeat exactly as old as the threshold still counts
is_healthy_inclusive(heartbeat, t) == t - heartbeat <= LIVENESS_THRESHOLD_SECONDS

\* HealthMonitor.is_healthy at wall-clock time t
is_healthy(heartbeat, t) == t - heartbeat < LIVENESS_THRESHOLD_SECONDS

\* GET /health: the status code
health_check == IF is_healthy(last_heartbeat, now) THEN 200 ELSE 503

TickSeconds == 30

Tick ==
    /\ now < MaxTicks * TickSeconds
    /\ now' = now + TickSeconds
    /\ UNCHANGED <<sentinel_vars, candles, MODE, call_vars,
                   connector_vars, worker_vars, trainer_vars>>

(***************************************************************************)
(* quant_engine: Repository                                                *)
(***************************************************************************)
\* rows 1..k of one (symbol, timeframe), as an earlier run left them
StoredHistory(k) ==
    [i \in 1..k |-> [symbol |-> BTC_USD, exchange |-> "BINANCE",
                     timeframe |-> DefaultTimeframe, timestamp |-> i]]

MarketRow(sym, tf, ts) == [symbol |-> sym, timeframe |-> tf, timestamp |-> ts]

MarketHistory(k) == {MarketRow(BTC_USD, DefaultTimeframe, i) : i \in 1..k}

\* variant of get_recent_candles: a failed query answers like one that succeeded
get_recent_candles_anyway(table, symbol, timeframe, limit, query_ok) ==
    LET InTable(r) == r \in table
        asc == SelectSeq([ts \in 1..MaxTime |-> MarketRow(symbol, timeframe, ts)],
                         InTable)
    IN  IF Len(asc) <= limit THEN asc
        ELSE SubSeq(asc, Len(asc) - limit + 1, Len(asc))

\* SELECT ... FROM market_data.candles WHERE symbol = :symbol AND timeframe = :timeframe
\* ORDER BY timestamp DESC LIMIT :limit, then reversed(rows): oldest first.
\* query_ok = FALSE: the query raised, the except branch returns [].
get_recent_candles(table, symbol, timeframe, limit, query_ok) ==
    IF ~query_ok THEN <<>>
    ELSE LET InTable(r) == r \in table
             asc == SelectSeq([ts \in 1..MaxTime |-> MarketRow(symbol, timeframe, ts)],
                              InTable)
         IN  IF Len(asc) <= limit THEN asc
             ELSE SubSeq(asc, Len(asc) - limit + 1, Len(asc))

KvKey(symbol, timeframe) == <<"regime", symbol, timeframe>>

KvKeys == {KvKey(normalize_symbol(s), DefaultTimeframe) : s \in RawSymbols}

\* model_registry as the trainer's ORM declares it (common.models.ModelRegistry)
RegistryColumns == {"id", "created_at", "algorithm", "parameters", "is_active"}

\* the column get_latest_centroids selects
CentroidsColumn == "model_params"

ActiveRows(registry) == {r \in registry : r.is_active}

\* SELECT model_params FROM model_registry WHERE is_active = TRUE
\* ORDER BY created_at DESC LIMIT 1.  A query naming a column the table does not
\* have raises; the except branch returns None.
get_latest_centroids(registry) ==
    IF CentroidsColumn \notin RegistryColumns THEN None
    ELSE IF ActiveRows(registry) = {} THEN None
    ELSE LET latest == CHOOSE r \in ActiveRows(registry) :
                           \A o \in ActiveRows(registry) :
                               <<o.created_at, o.id>> = <<r.created_at, r.id>>
                               \/ o.created_at < r.created_at
                               \/ (o.created_at = r.created_at /\ o.id < r.id)
         IN  Some(latest[CentroidsColumn])

(***************************************************************************)
(* quant_engine: analytics and classifier                                  *)
(***************************************************************************)
\* df.sort_index(): stable sort of the window by timestamp
is_sorted(w) == \A i \in 1..(Len(w) - 1) : w[i].timestamp <= w[i + 1].timestamp

\* the rows with a timestamp in lo..hi, in timestamp order, rows of one timestamp
\* in their order in w (the sort is stable)
RECURSIVE sort_range(_, _, _)
sort_range(w, lo, hi) ==
    IF lo = hi
    THEN LET At(r) == r.timestamp = lo IN SelectSeq(w, At)
    ELSE LET mid == (lo + hi) \div 2
         IN  sort_range(w, lo, mid) \o sort_range(w, mid + 1, hi)

sort_index(w) == IF is_sorted(w) THEN w ELSE sort_range(w, 0, MaxTime)

\* df['close'].pct_change(): NaN on the first row only
returns_isna(df, i) == i = 1

\* df['returns'].rolling(window=window_size).std(): NaN unless the window_size rows
\* ending at i all carry a return
volatility_isna(df, i) ==
    \/ i < window_size
    \/ \E j \in (i - window_size + 1)..i : returns_isna(df, j)

\* A float cell of the feature frame: NaN, or a number (in hundredths)
NaN == {}
Num(v) == {v}
isna(x) == x = NaN
Val(x) == CHOOSE v \in x : TRUE

\* calculate_rsi: 100 - 100 / (1 + gain / loss), no guard on loss = 0: NaN when the
\* closes of the last 14 rows do not move (0 / 0)
calculate_rsi(df, i) == NaN

\* the feature row df.iloc[-1].  The candles of the pipeline all carry the same
\* prices: returns, volatility and sma_slope are 0.0 where they are numbers.
current_state(df) ==
    [timestamp |-> df[Len(df)].timestamp, rows |-> Len(df),
     volatility_nan |-> volatility_isna(df, Len(df)),
     returns |-> 0, volatility |-> 0, sma_slope |-> 0,
     rsi |-> calculate_rsi(df, Len(df))]

\* Config defaults (in hundredths): volatility_threshold = 0.02, trend_threshold = 0.0
VOLATILITY_THRESHOLD == 2
TREND_THRESHOLD == 0
DefaultThresholds == [volatility |-> VOLATILITY_THRESHOLD, trend |-> TREND_THRESHOLD]

RuleConfidence == <<"1.0">>

\* variant of direction: the BEAR test compares with the threshold, not its negative
direction_same_threshold(trend, threshold) ==
    IF trend > threshold THEN "BULL"
    ELSE IF trend < threshold THEN "BEAR"
    ELSE "SIDEWAYS"

\* if trend > TREND_THRESHOLD ... elif trend < -TREND_THRESHOLD ... else
direction(trend, threshold) ==
    IF trend > threshold THEN "BULL"
    ELSE IF trend < -threshold THEN "BEAR"
    ELSE "SIDEWAYS"

vol_label(vol, threshold) == IF vol > threshold THEN "HIGH_VOL" ELSE "LOW_VOL"

\* RegimeMetrics and the window the row closes
metrics_of(state) == [window_end |-> state.timestamp, window_rows |-> state.rows]

\* label = f"{direction}_{vol_label}" is the pair <<direction, vol_label>>
_classify_rule_based(state, last_candle) ==
    Some([symbol |-> last_candle.symbol,
          regime_label |-> <<direction(state.sma_slope, cls_thresholds.trend),
                             vol_label(state.volatility, cls_thresholds.volatility)>>,
          regime_id |-> None,
          confidence |-> RuleConfidence,
          metrics |-> metrics_of(state)])

\* features = [state['volatility'], state.get('sma_slope', 0), state.get('rsi', 50)]
feature_vector(state) ==
    <<[name |-> "volatility", value |-> Num(state.volatility)],
      [name |-> "sma_slope", value |-> Num(state.sma_slope)],
      [name |-> "rsi", value |-> state.rsi]>>

Dims == 1..3

\* scaler_scale.any(): scale by the model's scaler, or not at all
scales(data) == data.scaler_scale # <<>> /\ \E i \in Dims : data.scaler_scale[i] # 0
scale_of(data, i) == IF scales(data) THEN data.scaler_scale[i] ELSE 1
mean_of(data, i) == IF scales(data) THEN data.scaler_mean[i] ELSE 0

\* a component of the vector is NaN: so is every distance
distance_isna(state) == \E i \in Dims : isna(feature_vector(state)[i].value)

Square(x) == x * x

\* square of np.linalg.norm(centroid - (vector - mean) / scale), as the fraction
\* distance2_num / distance2_den over the common denominator prod(scale^2)
distance2_den(data) == Square(scale_of(data, 1) * scale_of(data, 2) * scale_of(data, 3))

distance2_num(state, data, j) ==
    LET x(i) == Val(feature_vector(state)[i].value)
        term(i) == Square(x(i) - mean_of(data, i) - data.centroids[j][i] * scale_of(data, i))
    IN  term(1) * Square(scale_of(data, 2) * scale_of(data, 3))
        + term(2) * Square(scale_of(data, 1) * scale_of(data, 3))
        + term(3) * Square(scale_of(data, 1) * scale_of(data, 2))

\* np.argmin(distances): the first index of a minimal distance, the first NaN if any
\* (1-based here)
argmin(state, data) ==
    IF distance_isna(state) THEN 1
    ELSE CHOOSE j \in 1..Len(data.centroids) :
            /\ \A o \in 1..Len(data.centroids) :
                   distance2_num(state, data, j) <= distance2_num(state, data, o)
            /\ \A o \in 1..(j - 1) :
                   distance2_num(state, data, o) > distance2_num(state, data, j)

\* confidence = 1.0 / (1.0 + distances[nearest_idx])
ml_confidence(state, data, j) ==
    IF distance_isna(state) THEN <<"nan">>
    ELSE <<"1/(1+sqrt(n/d))", distance2_num(state, data, j), distance2_den(data)>>

\* labels[nearest_idx] raises KeyError on a JSON object: its keys are strings
label_raises(labels, idx) == labels.form = "object" /\ idx < Len(labels.names)

\* labels[nearest_idx] if nearest_idx < len(labels) else f"CLUSTER_{nearest_idx}"
ml_label(labels, idx) ==
    IF idx < Len(labels.names) THEN <<labels.names[idx + 1]>>
    ELSE <<"CLUSTER", ToString(idx)>>

\* variant of _classify_ml: no model, no result
_classify_ml_or_none(state, last_candle, centroids_data) ==
    IF centroids_data = None THEN None
    ELSE _classify_rule_based(state, last_candle)

\* centroids_data = None: get_latest_centroids found no model or failed.  Any
\* exception of the try block ends in the rule-based result as well.
_classify_ml(state, last_candle, centroids_data) ==
    IF centroids_data = None THEN _classify_rule_based(state, last_candle)
    ELSE LET data == The(centroids_data)
             nearest_idx == argmin(state, data) - 1
         IN  IF Len(data.centroids) = 0 THEN _classify_rule_based(state, last_candle)
             ELSE IF label_raises(data.labels, nearest_idx)
             THEN _classify_rule_based(state, last_candle)
             ELSE Some([symbol |-> last_candle.symbol,
                        regime_label |-> ml_label(data.labels, nearest_idx),
                        regime_id |-> Some(nearest_idx),
                        confidence |-> ml_confidence(state, data, nearest_idx + 1),
                        metrics |-> metrics_of(state)])

\* whether _classify_ml gets as far as building the feature vector
builds_vector(mode, centroids_data) ==
    /\ mode = "ML_CLUSTERING"
    /\ centroids_data # None
    /\ Len(The(centroids_data).centroids) > 0

\* whether classify gets as far as loading the model
reads_centroids(w, mode) ==
    /\ w # <<>>
    /\ ~current_state(sort_index(w)).volatility_nan
    /\ mode = "ML_CLUSTERING"

\* classify from the feature row on: NaN check and mode dispatch
classify_state(state, last_candle, mode, centroids_data) ==
    IF state.volatility_nan THEN None
    ELSE IF mode = "ML_CLUSTERING"
         THEN _classify_ml(state, last_candle, centroids_data)
         ELSE _classify_rule_based(state, last_candle)

\* RegimeClassifier.classify
classify(w, mode, centroids_data) ==
    IF w = <<>> THEN None
    ELSE classify_state(current_state(sort_index(w)), w[Len(w)], mode, centroids_data)

(***************************************************************************)
(* quant_engine: run_service                                               *)
(***************************************************************************)
LogClassified == <<"Classified">>
LogCouldNotClassify == <<"Could not classify">>
LogFetchError == <<"Error fetching candles">>

NoCandle == [symbol |-> <<>>, exchange |-> "", timeframe |-> "", timestamp |-> 0]

\* Candle.model_validate succeeds on the flat field map and on a JSON payload field
parses(entry) == entry.form \in {"flat", "payload"}

parse_candle_from_msg(entry) ==
    MarketRow(entry.candle.symbol, entry.candle.timeframe, entry.candle.timestamp)

\* history merge of process_candle
merge_window(history, candle) ==
    IF history # <<>> /\ history[Len(history)].timestamp = candle.timestamp
    THEN history
    ELSE Append(history, candle)

\* variant of awaited_process_candle: the handler is spawned as a task, the loop
\* reads on while it runs
spawned_process_candle(handled) == TRUE

\* await process_candle(...); await xack(...): the loop reaches its next
\* XREADGROUP only when the handling of the entry it read has returned
awaited_process_candle(handled) == handled = 0

\* XREADGROUP group consumer {stream: ">"} count=1: the next never-delivered entry
xreadgroup ==
    /\ awaited_process_candle(inflight)
    /\ cursor < Len(stream)
    /\ cursor' = cursor + 1
    /\ pending' = pending \cup {cursor + 1}
    /\ inflight' = cursor + 1
    /\ UNCHANGED <<sentinel_vars, now, candles, MODE, data_vars,
                   connector_vars, kv, worker_log, centroids_read,
                   trainer_vars>>

\* the read of a service that is running: issued and answered in one step
XReadGroup == xreadgroup /\ UNCHANGED service_vars

\* variant of process_raises: an empty classification raises as well
process_raises_on_none(result, set_ok) == result = None \/ ~set_ok

\* whether process_candle raises: save_regime is its only call that can
process_raises(result, set_ok) == result # None /\ ~set_ok

\* variant of xack: the XACK is sent whether or not the calls before it returned
xack_early(ids, id, reached, ack_ok) == IF ack_ok THEN ids \ {id} ELSE ids

\* the pending list after the entry's handling: XACK is the last call of the try block
xack(ids, id, reached, ack_ok) == IF reached /\ ack_ok THEN ids \ {id} ELSE ids

\* variant of save_regime: SET ... NX, an existing value is kept
save_regime_nx(store, result, timeframe) ==
    IF store[KvKey(The(result).symbol, timeframe)] = None
    THEN [store EXCEPT ![KvKey(The(result).symbol, timeframe)] = result]
    ELSE store

\* repository.save_regime: SET regime:{symbol}:{timeframe} = json EX 3600
save_regime(store, result, timeframe) ==
    [store EXCEPT ![KvKey(The(result).symbol, timeframe)] = result]

\* except Exception as e, around parse, process_candle and XACK of one entry
entry_handler_catches(cause) == TRUE

\* logger.error("Error in stream loop: ..."), where an exception leaving the
\* per-entry block would end
LogLoopError(cause) == <<"Error in stream loop", cause>>

\* Body of the per-entry try block: parse, process_candle, XACK.
\* hist_ok / set_ok / ack_ok: whether the history query, the SET and the XACK succeed.
handle_entry(hist_ok, set_ok, ack_ok) ==
    /\ inflight # 0
    /\ LET id == inflight
           entry == stream[id]
           parsed == parses(entry)
           candle == parse_candle_from_msg(entry)
           history == get_recent_candles(candles, candle.symbol, candle.timeframe,
                                         HistoryLimit, hist_ok)
           full_window == merge_window(history, candle)
           loads == parsed /\ reads_centroids(full_window, MODE)
           centroids == get_latest_centroids(model_registry)
           result == classify(full_window, MODE, centroids)
           saves == parsed /\ result # None
           save_raises == parsed /\ process_raises(result, set_ok)
           processed == parsed /\ ~save_raises
           cause == IF ~parsed THEN "parse"
                    ELSE IF save_raises THEN "save_regime" ELSE "xack"
           raised == ~parsed \/ save_raises \/ ~ack_ok
       IN  /\ kv' = IF saves /\ set_ok THEN save_regime(kv, result, candle.timeframe)
                    ELSE kv
           /\ pending' = xack(pending, id, processed, ack_ok)
           /\ worker_log' = Append(worker_log,
                  (IF raised
                   THEN {IF entry_handler_catches(cause) THEN LogError(cause)
                         ELSE LogLoopError(cause)}
                   ELSE {})
                  \cup (IF parsed /\ ~hist_ok THEN {LogFetchError} ELSE {})
                  \cup (IF saves THEN {LogClassified} ELSE {})
                  \cup (IF parsed /\ result = None THEN {LogCouldNotClassify} ELSE {}))
           /\ centroids_read' = IF loads
                                THEN [calls |-> 1 - centroids_read.calls,
                                      value |-> centroids]
                                ELSE centroids_read
    /\ inflight' = 0
    /\ UNCHANGED <<sentinel_vars, now, candles, MODE, data_vars,
                   connector_vars, cursor, trainer_vars>>

OnEntry == \E hist_ok \in BOOLEAN, set_ok \in BOOLEAN, ack_ok \in BOOLEAN :
    handle_entry(hist_ok, set_ok, ack_ok) /\ UNCHANGED service_vars

\* Another producer on the same stream: a JSON payload entry, or one no Candle parses from
ForeignEntries ==
    {[form |-> "payload", candle |-> CandleOf([s |-> BTCUSDT, t |-> Preloaded + 1])],
     [form |-> "garbage", candle |-> NoCandle]}

ForeignPublish == \E e \in ForeignEntries :
    /\ Len(stream) < MaxFrames
    /\ stream' = Append(stream, e)
    /\ UNCHANGED <<raw_candles, last_heartbeat, received, msg, sentinel_log, now,
                   candles, MODE, call_vars, connector_vars, worker_vars,
                   trainer_vars>>

(***************************************************************************)
(* The two serializations of a candle on the stream                        *)
(***************************************************************************)
\* a JSON or Redis value: a string or a number
StrCell(str) == [type |-> "str", str |-> str, num |-> 0]
NumCell(num) == [type |-> "num", str |-> "", num |-> num]

\* datetime.isoformat and its parse
isoformat(ts) == ToString(ts)
fromisoformat(str) == {ts \in 0..MaxTime : isoformat(ts) = str}

\* candle.model_dump(mode="json"): the timestamp as a string, the prices as numbers
model_dump_json_mode(c) ==
    [symbol |-> c.symbol, exchange |-> c.exchange, timeframe |-> c.timeframe,
     timestamp |-> isoformat(c.timestamp), close |-> NumCell(c.close)]

\* what XADD stores and XREADGROUP returns: every value is a string
redis_value(cell) == IF cell.type = "num" THEN StrCell(ToString(cell.num)) ELSE cell

\* the flat entry: the fields of the JSON form, as Redis strings
flat_fields(c) ==
    [model_dump_json_mode(c) EXCEPT !.close = redis_value(model_dump_json_mode(c).close)]

\* json.dumps / json.loads
json_dumps(obj) == [json |-> obj]
json_loads(text) == text.json

\* the payload entry: one field carrying the JSON text of the same object
payload_fields(c) == [payload |-> json_dumps(model_dump_json_mode(c))]

\* variant of coerce_float: strict validation, a string is not a float
coerce_float_strict(cell) == IF cell.type = "num" THEN Some(cell.num) ELSE None

\* pydantic's float field: a number, or a string that parses as one
coerce_float(cell) ==
    IF cell.type = "num" THEN Some(cell.num)
    ELSE {n \in 0..MaxPrice : ToString(n) = cell.str}

\* Candle.model_validate(data): None when validation raises
model_validate(data) ==
    LET ts == fromisoformat(data.timestamp)
        close == coerce_float(data.close)
    IN  IF ts = None \/ close = None THEN None
        ELSE Some([symbol |-> data.symbol, exchange |-> data.exchange,
                   timeframe |-> data.timeframe, timestamp |-> The(ts),
                   close |-> The(close)])

\* parse_candle_from_msg on the fields of an entry
parse_msg_data(msg_data) ==
    IF "payload" \in DOMAIN msg_data
    THEN model_validate(json_loads(msg_data.payload))
    ELSE model_validate(msg_data)

\* the worker parses the ingestor's flat entry of the candle
ParseFlat ==
    /\ parsed_candle.flat = <<>>
    /\ parsed_candle' = [parsed_candle EXCEPT
                             !.flat = <<parse_msg_data(flat_fields(wire_candle))>>]
    /\ UNCHANGED <<sentinel_vars, now, candles, MODE, service_vars, features_vars,
                   classifier_vars, labelling_vars,
                   gateway_vars, connector_vars, worker_vars, trainer_vars, wire_candle>>

\* the worker parses a payload entry of the candle
ParsePayload ==
    /\ parsed_candle.payload = <<>>
    /\ parsed_candle' = [parsed_candle EXCEPT
                             !.payload = <<parse_msg_data(payload_fields(wire_candle))>>]
    /\ UNCHANGED <<sentinel_vars, now, candles, MODE, service_vars, features_vars,
                   classifier_vars, labelling_vars,
                   gateway_vars, connector_vars, worker_vars, trainer_vars, wire_candle>>

(***************************************************************************)
(* gateway: GET /v1/regime                                                 *)
(***************************************************************************)
\* the body served when mock=true and the key is absent
MockRegime == [regime |-> "BULL", timestamp |-> "2025-12-14T21:19:49.123456"]

\* get_regime: data = redis get of regime:{symbol}:{timeframe}; the stored value
\* is the JSON text the worker wrote, returned as the object json.loads gives
get_regime(store, request) ==
    LET key == KvKey(request.symbol, request.timeframe)
        data == IF key \in DOMAIN store THEN store[key] ELSE None
    IN  IF data = None /\ ~request.mock THEN [status |-> 404, body |-> None]
        ELSE IF data = None /\ request.mock THEN [status |-> 200, body |-> Some(MockRegime)]
        ELSE [status |-> 200, body |-> data]

Requests ==
    [symbol : {normalize_symbol(sym) : sym \in RawSymbols}, timeframe : {DefaultTimeframe},
     mock : BOOLEAN]

\* a paid request reaches the handler
GetRegime == \E request \in Requests :
    /\ gw_request' = request
    /\ gw_response' = get_regime(kv, request)
    /\ UNCHANGED <<sentinel_vars, now, candles, MODE, service_vars, features_vars,
                   classifier_vars, labelling_vars,
                   codec_vars, connector_vars, worker_vars, trainer_vars>>

(***************************************************************************)
(* lab: train_model                                                        *)
(***************************************************************************)
NoSession == [deactivated |-> {}, added |-> {}]

\* variant of update_where_active: the UPDATE matches no row
update_where_none(registry) == {}

\* UPDATE model_registry SET is_active = false WHERE is_active = true: the rows it hits
update_where_active(registry) == {r.id : r \in ActiveRows(registry)}

\* ModelRegistry(created_at=utcnow(), algorithm="KMeans", parameters=..., is_active=True)
new_model(registry, created) ==
    [id |-> Cardinality(registry) + 1, created_at |-> created, algorithm |-> "KMeans",
     parameters |-> Cardinality(registry) + 1, is_active |-> TRUE]

\* db.commit(): the session's UPDATE and INSERT become visible together
commit(registry, sess) ==
    {IF r.id \in sess.deactivated THEN [r EXCEPT !.is_active = FALSE] ELSE r :
        r \in registry} \cup sess.added

\* k = 4; KMeans(n_clusters=k)
n_clusters == 4

Clusters == 0..(n_clusters - 1)

\* scaler.inverse_transform(center_scaled)[0][dim]
inverse_transform(f, z, dim) == z * f.scaler_scale[dim] + f.scaler_mean[dim]

\* cluster_stats[i]: avg_ret, avg_vol, and the scaled return and volatility
avg_ret(f, i) == inverse_transform(f, f.centroids[i + 1][1], 1)
avg_vol(f, i) == inverse_transform(f, f.centroids[i + 1][2], 2)
scaled_ret(f, i) == f.centroids[i + 1][1]
scaled_vol(f, i) == f.centroids[i + 1][2]

\* cluster_stats.sort(key=avg_vol, reverse=True): a stable sort, as a sequence of ids
sorted_by_vol(f) ==
    LET before(a, b) == \/ avg_vol(f, a) > avg_vol(f, b)
                        \/ avg_vol(f, a) = avg_vol(f, b) /\ a < b
        position(i) == 1 + Cardinality({j \in Clusters : before(j, i)})
    IN  [pos \in 1..n_clusters |-> CHOOSE i \in Clusters : position(i) = pos]

\* score = scaled_vol - scaled_ret
score(f, i) == scaled_vol(f, i) - scaled_ret(f, i)

\* for stats in cluster_stats: if score > max_score: ... (max_score starts at -inf)
RECURSIVE best_panic_from(_, _, _)
best_panic_from(f, pos, best) ==
    IF pos > n_clusters THEN best
    ELSE LET id == sorted_by_vol(f)[pos]
         IN  IF best = None \/ score(f, id) > score(f, The(best))
             THEN best_panic_from(f, pos + 1, Some(id))
             ELSE best_panic_from(f, pos + 1, best)

best_panic_cluster(f) == best_panic_from(f, 1, None)

\* variant of remaining_after_panic: the PANIC cluster stays a candidate
remaining_with_panic(best_panic) == Clusters

\* remaining_clusters = set(range(n_clusters)) minus the PANIC cluster
remaining_after_panic(best_panic) == Clusters \ best_panic

\* for cid in remaining_clusters: if avg_ret > max_ret: ... (ids in ascending order)
RECURSIVE best_bull_from(_, _, _, _)
best_bull_from(f, remaining, cid, best) ==
    IF cid >= n_clusters THEN best
    ELSE IF cid \in remaining /\ (best = None \/ avg_ret(f, cid) > avg_ret(f, The(best)))
         THEN best_bull_from(f, remaining, cid + 1, Some(cid))
         ELSE best_bull_from(f, remaining, cid + 1, best)

best_bull(f) == best_bull_from(f, remaining_after_panic(best_panic_cluster(f)), 0, None)

LabelPanic == <<"PANIC">>
LabelBull == <<"BULL">>
LabelRegime(cid) == <<"REGIME", ToString(cid)>>

\* regime_labels after the three assignments: PANIC, then BULL, then REGIME_{cid}
\* for what remains
auto_label(f) ==
    LET panic == best_panic_cluster(f)
        bull == best_bull(f)
    IN  [cid \in Clusters |-> IF cid \in bull THEN LabelBull
                              ELSE IF cid \in panic THEN LabelPanic
                              ELSE LabelRegime(cid)]

\* step 5 of train_model
AutoLabel ==
    /\ regime_labels = None
    /\ fit # NoFit
    /\ regime_labels' = Some(auto_label(fit))
    /\ UNCHANGED <<sentinel_vars, now, candles, MODE, service_vars, features_vars,
                   classifier_vars, gateway_vars,
                   codec_vars, connector_vars, worker_vars, trainer_vars, fit>>

\* variant of rollback: the UPDATE of the failed transaction stays applied
rollback_keeps_update(registry, sess) == commit(registry, [sess EXCEPT !.added = {}])

\* db.rollback(): nothing of the session becomes visible
rollback(registry, sess) == registry

\* steps 1-5: fetch, features, scale, fit, label.  outcome "no_data": df.empty;
\* "no_features": df_clean.empty; both return before the registry is touched.
TrainFit == \E outcome \in {"no_data", "no_features", "fitted"} :
    /\ trainer_pc \in {"idle", "aborted", "failed", "saved"}
    /\ Cardinality(model_registry) < MaxModels
    /\ trainer_pc' = IF outcome = "fitted" THEN "fitted" ELSE "aborted"
    /\ session' = NoSession
    /\ UNCHANGED <<sentinel_vars, now, candles, MODE, call_vars,
                   connector_vars, worker_vars, model_registry>>

\* db.execute(update(...)); db.add(new_model).  An exception rolls the session back.
TrainStage == \E ok \in BOOLEAN :
    /\ trainer_pc = "fitted"
    /\ IF ok
       THEN /\ session' = [deactivated |-> update_where_active(model_registry),
                           added |-> {new_model(model_registry, now)}]
            /\ trainer_pc' = "staged"
       ELSE /\ session' = NoSession
            /\ trainer_pc' = "failed"
    /\ UNCHANGED <<sentinel_vars, now, candles, MODE, call_vars,
                   connector_vars, worker_vars, model_registry>>

\* db.commit(), or db.rollback() when it raises
TrainCommit == \E ok \in BOOLEAN :
    /\ trainer_pc = "staged"
    /\ model_registry' = IF ok THEN commit(model_registry, session)
                         ELSE rollback(model_registry, session)
    /\ session' = NoSession
    /\ trainer_pc' = IF ok THEN "saved" ELSE "failed"
    /\ UNCHANGED <<sentinel_vars, now, candles, MODE, call_vars,
                   connector_vars, worker_vars>>

(***************************************************************************)
(* Specifications                                                          *)
(***************************************************************************)
\* variant of heartbeat_at_start: no heartbeat counts before the first candle
heartbeat_unset(start) == start - LIVENESS_THRESHOLD_SECONDS

\* HealthMonitor.__init__: self.last_heartbeat = datetime.now()
heartbeat_at_start(start) == start

\* The state after construction, given what the two candle tables hold from earlier
\* runs and the configured MODE.
PipelineStarts(stored, market, mode) ==
    /\ raw_candles = stored
    /\ stream = <<>>
    /\ last_heartbeat = heartbeat_at_start(0)
    /\ now = 0
    /\ received = 0
    /\ msg = NoMsg
    /\ sentinel_log = {}
    /\ candles = market
    /\ MODE = mode
    /\ cursor = 0
    /\ pending = {}
    /\ inflight = 0
    /\ kv = [k \in KvKeys |-> None]
    /\ worker_log = <<>>
    /\ centroids_read = [calls |-> 0, value |-> None]
    /\ model_registry = {}
    /\ session = NoSession
    /\ trainer_pc = "idle"

\* no classifier call made outside the pipeline
NoRow == [timestamp |-> 0, rows |-> 0, volatility_nan |-> TRUE, returns |-> 0,
          volatility |-> 0, sma_slope |-> 0, rsi |-> NaN]
NotCalled == [called |-> FALSE, value |-> None]

ClassifierIdle ==
    /\ cls_state = NoRow
    /\ cls_thresholds = DefaultThresholds
    /\ cls_model = None
    /\ cls_result = NotCalled
    /\ cls_vector = <<>>

LabellingIdle == fit = NoFit /\ regime_labels = None
GatewayIdle == gw_request = NoRequest /\ gw_response = NoResponse
CodecIdle == wire_candle = NoWire /\ parsed_candle = NotParsed

\* running = True; run_service is about to enter its loop
ServiceStarts == engine_running = TRUE /\ engine_pc = "top"

\* no feature frame computed outside the pipeline
NotCleaned == [done |-> FALSE, kept |-> {}, X |-> <<>>]
FeaturesIdle ==
    /\ df_close = <<>>
    /\ df_features = <<>>
    /\ df_clean = NotCleaned
    /\ df_worker = <<>>

\* start(): running = True, backoff = 1, not yet connected
ConnectorStarts ==
    /\ ws = "connecting"
    /\ backoff = 1
    /\ slept = 0
    /\ ws_errors = 0
    /\ running = TRUE
    /\ in_flight = NoMsg
    /\ sleep_left = 0

Starts(stored, market, mode) ==
    /\ PipelineStarts(stored, market, mode)
    /\ ClassifierIdle
    /\ LabellingIdle
    /\ GatewayIdle
    /\ CodecIdle
    /\ ServiceStarts
    /\ FeaturesIdle
    /\ ConnectorStarts

Init == Starts(<<>>, {}, "RULE_BASED")

\* the ingestor alone, on every kind of frame
Next == OnMessage \/ Tick

Spec == Init /\ [][Next]_vars

\* closed, well-formed klines of one symbol for the hours after the stored history
ClosedFrames ==
    [kind : {"kline"}, enveloped : {TRUE}, x : {"true"}, s : {BTCUSDT},
     t : {Preloaded + 1, Preloaded + 2}, complete : {TRUE}]

\* a closed kline that is stored and published
OnClosedCandle == \E m \in ClosedFrames :
    handle_message(m, TRUE, TRUE) /\ UNCHANGED connector_vars

\* ingestor and worker; the ingestor's table holds Preloaded hours of history, the
\* worker's table nothing, the same hours, or one hour more
WorkerInit == \E market \in {{}, MarketHistory(Preloaded), MarketHistory(Preloaded + 1)} :
    Starts(StoredHistory(Preloaded), market, "RULE_BASED")

\* an entry handled with the history query answering
OnEntryFetched == \E set_ok \in BOOLEAN, ack_ok \in BOOLEAN :
    handle_entry(TRUE, set_ok, ack_ok) /\ UNCHANGED service_vars

WorkerNext == OnClosedCandle \/ ForeignPublish \/ XReadGroup \/ OnEntryFetched

WorkerSpec == WorkerInit /\ [][WorkerNext]_vars

\* run_service's loop keeps reading while the process runs, and the handling of
\* the entry it holds always comes to its end
FairWorkerSpec == WorkerSpec /\ WF_vars(XReadGroup) /\ []<>(inflight = 0)

(***************************************************************************)
(* run_service with its shutdown flag: the blocking read is issued at the   *)
(* top of the loop and answered later, the signal can arrive in between.    *)
(***************************************************************************)
\* signal_handler: running = False
Signal ==
    /\ engine_running
    /\ engine_pc # "closed"
    /\ engine_running' = FALSE
    /\ UNCHANGED <<engine_pc, sentinel_vars, now, candles, MODE, data_vars,
                   connector_vars, worker_vars, trainer_vars>>

\* while running: ... await redis_client.xreadgroup(..., count=1, block=1000)
IssueRead ==
    /\ engine_pc = "top"
    /\ engine_running
    /\ engine_pc' = "reading"
    /\ UNCHANGED <<engine_running, sentinel_vars, now, candles, MODE, data_vars,
                   connector_vars, worker_vars, trainer_vars>>

\* the loop condition is false: "Quant Engine Service Stopped.", aclose()
CloseClient ==
    /\ engine_pc = "top"
    /\ ~engine_running
    /\ engine_pc' = "closed"
    /\ UNCHANGED <<engine_running, sentinel_vars, now, candles, MODE, data_vars,
                   connector_vars, worker_vars, trainer_vars>>

\* the blocked read is answered with the next entry
ReadDelivers ==
    /\ engine_pc = "reading"
    /\ xreadgroup
    /\ engine_pc' = "handling"
    /\ UNCHANGED engine_running

\* the block time passes without an entry: entries is empty
ReadEmpty ==
    /\ engine_pc = "reading"
    /\ cursor = Len(stream)
    /\ engine_pc' = "top"
    /\ UNCHANGED <<engine_running, sentinel_vars, now, candles, MODE, data_vars,
                   connector_vars, worker_vars, trainer_vars>>

\* the per-entry block ends, the loop is back at its condition
EntryHandled == \E set_ok \in BOOLEAN, ack_ok \in BOOLEAN :
    /\ engine_pc = "handling"
    /\ handle_entry(TRUE, set_ok, ack_ok)
    /\ engine_pc' = "top"
    /\ UNCHANGED engine_running

ShutdownInit == Starts(StoredHistory(Preloaded), MarketHistory(Preloaded), "RULE_BASED")

ShutdownNext ==
    \/ OnClosedCandle
    \/ Signal
    \/ IssueRead
    \/ CloseClient
    \/ ReadDelivers
    \/ ReadEmpty
    \/ EntryHandled

ShutdownSpec == ShutdownInit /\ [][ShutdownNext]_vars

\* the event loop keeps running the service coroutine; the read is answered
\* within its block time and the handling of an entry comes to its end
FairShutdownSpec ==
    ShutdownSpec /\ WF_vars(IssueRead) /\ WF_vars(CloseClient)
                 /\ []<>(engine_pc \notin {"reading", "handling"})

\* one frame of each kind, for the hour after the stored history
FrameSamples ==
    {m \in Frames : m.s = BTCUSDT /\ m.t = Preloaded + 1 /\ m.enveloped}

OnFrameSample == \E m \in FrameSamples, db_ok \in BOOLEAN, xadd_ok \in BOOLEAN :
    handle_message(m, db_ok, xadd_ok) /\ UNCHANGED connector_vars

\* both handlers on every kind of message and every failure of their calls
HandlersInit == Starts(<<>>, MarketHistory(Preloaded), "RULE_BASED")

HandlersNext == OnFrameSample \/ ForeignPublish \/ XReadGroup \/ OnEntry

HandlersSpec == HandlersInit /\ [][HandlersNext]_vars

\* msg = await ws.recv(): a closed kline arrives
RecvMessage == \E m \in ClosedFrames :
    /\ ws = "open"
    /\ received < MaxFrames
    /\ in_flight' = m
    /\ ws' = "handling"
    /\ ws_errors' = 0
    /\ UNCHANGED <<backoff, slept, running, sleep_left, sentinel_vars, now, candles, MODE,
                   call_vars, worker_vars, trainer_vars>>

\* await self.handle_message(msg) ends, then the inner loop condition
HandleReceived ==
    /\ ws = "handling"
    /\ handle_message(in_flight, TRUE, TRUE)
    /\ in_flight' = NoMsg
    /\ ws' = loop_or_return("open")
    /\ UNCHANGED <<backoff, slept, ws_errors, running, sleep_left>>

\* the ingestor's connection loop, and stop() called at any await
ConnectorNext ==
    \/ ConnectOk
    \/ ConnectFails
    \/ RecvFails
    \/ RecvMessage
    \/ HandleReceived
    \/ SleepTick
    \/ WakeUp
    \/ Stop

ConnectorSpec == Init /\ [][ConnectorNext]_vars

\* feature rows, thresholds and models the classifier is called with
FeatureRows ==
    [timestamp : {Preloaded + 1}, rows : {window_size + 1}, volatility_nan : BOOLEAN,
     returns : {0}, volatility : 0..MaxFeature, sma_slope : (-MaxSlope)..MaxSlope,
     rsi : {NaN, Num(50), Num(80)}]

Thresholds == [volatility : {1, VOLATILITY_THRESHOLD}, trend : {TREND_THRESHOLD, 1}]

\* the model of test_ml_based_classification: labels as a list
TestModel ==
    [centroids |-> <<(<<0, 0, 50>>), (<<1, 1, 80>>)>>,
     labels |-> [form |-> "list", names |-> <<"CALM", "PANIC">>],
     scaler_mean |-> <<0, 0, 0>>, scaler_scale |-> <<1, 1, 1>>, feature_cols |-> <<>>]

\* fewer labels than centroids
ShortLabelsModel == [TestModel EXCEPT !.labels.names = <<"CALM">>]

\* no centroids
EmptyModel == [TestModel EXCEPT !.centroids = <<>>]

\* model_params as train_model builds it and the JSON column returns it: labels is
\* the dict regime_labels, an object keyed by the cluster ids as strings
TrainedModel ==
    [centroids |-> <<(<<0, 0, 0>>), (<<-1, 1, 0>>), (<<1, 0, 1>>), (<<0, -1, -1>>)>>,
     labels |-> [form |-> "object", names |-> <<"REGIME_0", "PANIC", "BULL", "REGIME_3">>],
     scaler_mean |-> <<1, 0, 50>>, scaler_scale |-> <<2, 1, 10>>,
     feature_cols |-> <<"log_return", "volatility_24h", "rsi_14">>]

Models == {None, Some(TestModel), Some(ShortLabelsModel), Some(EmptyModel),
           Some(TrainedModel)}

ClassifierInit ==
    \E row \in FeatureRows, th \in Thresholds, model \in Models,
       mode \in {"RULE_BASED", "ML_CLUSTERING"} :
        /\ PipelineStarts(<<>>, {}, mode)
        /\ ConnectorStarts
        /\ LabellingIdle
        /\ GatewayIdle
        /\ CodecIdle
        /\ ServiceStarts
        /\ FeaturesIdle
        /\ cls_state = row
        /\ cls_thresholds = th
        /\ cls_model = model
        /\ cls_result = NotCalled
        /\ cls_vector = <<>>

\* classify from the feature row on, for the candle the row belongs to
ClassifyRow ==
    /\ ~cls_result.called
    /\ cls_result' = [called |-> TRUE,
                      value |-> classify_state(cls_state,
                                    MarketRow(BTC_USD, DefaultTimeframe, cls_state.timestamp),
                                    MODE, cls_model)]
    /\ cls_vector' = IF ~cls_state.volatility_nan /\ builds_vector(MODE, cls_model)
                     THEN feature_vector(cls_state) ELSE <<>>
    /\ UNCHANGED <<sentinel_vars, now, candles, MODE, service_vars, features_vars,
                   worker_vars, trainer_vars,
                   connector_vars, labelling_vars, gateway_vars, codec_vars,
                   cls_state, cls_thresholds, cls_model>>

ClassifierNext == ClassifyRow

\* the scaled centroids KMeans can return: return and volatility of each cluster
Centroids == [1..n_clusters -> ((-MaxZ)..MaxZ) \X (0..MaxZ)]

\* train_model after the fit, on any centroids
LabellingInit == \E c \in Centroids :
    /\ PipelineStarts(<<>>, {}, "ML_CLUSTERING")
    /\ ConnectorStarts
    /\ ClassifierIdle
    /\ GatewayIdle
    /\ CodecIdle
    /\ ServiceStarts
    /\ FeaturesIdle
    /\ fit = [scaler_mean |-> <<1, 5>>, scaler_scale |-> <<2, 3>>, centroids |-> c]
    /\ regime_labels = None

LabellingNext == AutoLabel

LabellingSpec == LabellingInit /\ [][LabellingNext]_vars

ClassifierSpec == ClassifierInit /\ [][ClassifierNext]_vars

\* trainer and an ML-mode worker on a full history
RegistryInit == Starts(StoredHistory(Preloaded), MarketHistory(Preloaded), "ML_CLUSTERING")

\* the next hour's closed kline, stored and published
OnFreshCandle ==
    /\ handle_message([kind |-> "kline", enveloped |-> TRUE, x |-> "true", s |-> BTCUSDT,
                       t |-> Preloaded + 1, complete |-> TRUE], TRUE, TRUE)
    /\ UNCHANGED connector_vars

RegistryNext ==
    \/ OnFreshCandle
    \/ XReadGroup
    \/ OnEntry
    \/ TrainFit
    \/ TrainStage
    \/ TrainCommit

RegistrySpec == RegistryInit /\ [][RegistryNext]_vars

\* a worker that lags: its table already holds the hours being delivered
MergeInit == \E market \in {MarketHistory(Preloaded + 1), MarketHistory(Preloaded + 2)} :
    Starts(StoredHistory(Preloaded), market, "RULE_BASED")

MergeNext == OnClosedCandle \/ XReadGroup \/ OnEntryFetched

MergeSpec == MergeInit /\ [][MergeNext]_vars

\* the candles a producer serializes
WireCandles ==
    [symbol : {normalize_symbol(sym) : sym \in RawSymbols}, exchange : {"BINANCE"},
     timeframe : {DefaultTimeframe}, timestamp : FrameTimes, close : 0..MaxPrice]

\* parse_candle_from_msg on both serializations of any candle
CodecInit == \E c \in WireCandles :
    /\ PipelineStarts(<<>>, {}, "RULE_BASED")
    /\ ConnectorStarts
    /\ ClassifierIdle
    /\ LabellingIdle
    /\ GatewayIdle
    /\ ServiceStarts
    /\ FeaturesIdle
    /\ wire_candle = c
    /\ parsed_candle = NotParsed

CodecNext == ParseFlat \/ ParsePayload

CodecSpec == CodecInit /\ [][CodecNext]_vars

(***************************************************************************)
(* common.features.calculate_features (trainer) and                        *)
(* quant_engine.analytics.calculate_technical_indicators (worker) on the   *)
(* closes of one symbol.  A cell is NaN or Num(v).                         *)
(***************************************************************************)
\* rolling(window=24), rolling(window=50), rolling(window=14) of the trainer
volatility_window == 24
sma_window == 50
rsi_window == 14

\* calculate_rsi(df['close'], window=14) of the worker
worker_rsi_window == 14

\* RSI and its fill value 100, in hundredths
RsiScale == 100
Hundred == 100 * RsiScale

RECURSIVE gcd(_, _)
gcd(a, b) == IF b = 0 THEN a ELSE gcd(b, a % b)

Abs(x) == IF x < 0 THEN -x ELSE x

\* a return as an exact term: fn applied to the fraction num / den in lowest
\* terms; every zero return is the same term
ReturnTerm(fn, num, den) ==
    IF (fn = "log" /\ num = den) \/ (fn = "pct" /\ num = 0)
    THEN [fn |-> "zero", num |-> 0, den |-> 1]
    ELSE [fn |-> fn, num |-> num \div gcd(Abs(num), den), den |-> den \div gcd(Abs(num), den)]

\* the sum of f[lo..hi]
RECURSIVE SumOver(_, _, _)
SumOver(f, lo, hi) ==
    IF lo > hi THEN 0
    ELSE IF lo = hi THEN f[lo]
    ELSE SumOver(f, lo, (lo + hi) \div 2) + SumOver(f, (lo + hi) \div 2 + 1, hi)

\* series.rolling(window=w).mean() at row i, as the sum of the window (min_periods
\* is w: NaN unless the w rows ending at i all carry a number)
rolling_mean(series, i, w) ==
    IF i < w \/ \E j \in (i - w + 1)..i : isna(series[j]) THEN NaN
    ELSE Num(SumOver([j \in 1..Len(series) |-> IF isna(series[j]) THEN 0 ELSE Val(series[j])],
                     i - w + 1, i))

\* series.rolling(window=w).std() at row i, as the window it is taken over; the
\* deviation of equal values is the empty window (0.0)
rolling_std(series, i, w) ==
    IF i < w \/ \E j \in (i - w + 1)..i : isna(series[j]) THEN NaN
    ELSE LET win == [j \in 1..w |-> Val(series[i - w + j])]
         IN  Num(IF \A j \in 1..w : win[j] = win[1] THEN <<>> ELSE win)

\* df['close'].diff()
diff(close) == [i \in 1..Len(close) |-> IF i = 1 THEN NaN ELSE Num(close[i] - close[i - 1])]

\* delta.where(delta > 0, 0): the value where the condition holds, 0 elsewhere,
\* the NaN of the first row included
gain_of(delta) ==
    [i \in 1..Len(delta) |->
        IF ~isna(delta[i]) /\ Val(delta[i]) > 0 THEN delta[i] ELSE Num(0)]

\* -delta.where(delta < 0, 0)
loss_of(delta) ==
    [i \in 1..Len(delta) |->
        IF ~isna(delta[i]) /\ Val(delta[i]) < 0 THEN Num(-Val(delta[i])) ELSE Num(0)]

\* 100 - 100 / (1 + rs) for rs = gain / loss, in hundredths
rsi_from(gain, loss) == Num((Hundred * gain) \div (gain + loss))

\* common.features: rs = gain / loss.replace(0, np.nan); 100 - 100 / (1 + rs)
rsi_guarded(gain, loss) ==
    IF isna(gain) \/ isna(loss) \/ loss = Num(0) THEN NaN
    ELSE rsi_from(Val(gain), Val(loss))

\* df['rsi_14'].fillna(100)
fillna(cell, value) == IF isna(cell) THEN Num(value) ELSE cell

\* np.log(df['close'] / df['close'].shift(1))
log_return(close) ==
    [i \in 1..Len(close) |->
        IF i = 1 THEN NaN ELSE Num(ReturnTerm("log", close[i], close[i - 1]))]

\* calculate_features(df) on a frame sorted by time
calculate_features(close) ==
    LET ret == log_return(close)
        delta == diff(close)
        gain == gain_of(delta)
        loss == loss_of(delta)
        price == [i \in 1..Len(close) |-> Num(close[i])]
    IN  [i \in 1..Len(close) |->
            [log_return |-> ret[i],
             volatility_24h |-> rolling_std(ret, i, volatility_window),
             sma_50 |-> rolling_mean(price, i, sma_window),
             rsi_14 |-> fillna(rsi_guarded(rolling_mean(gain, i, rsi_window),
                                           rolling_mean(loss, i, rsi_window)),
                               Hundred)]]

\* the columns of the feature frame that calculate_features adds; the candle's
\* own columns carry no NaN
FeatureColumns == {"log_return", "volatility_24h", "sma_50", "rsi_14"}

\* feature_cols = ['log_return', 'volatility_24h', 'rsi_14']
feature_cols == <<"log_return", "volatility_24h", "rsi_14">>

\* df_features.dropna(): the rows without a NaN in any column
dropna(df) == {i \in 1..Len(df) : \A col \in FeatureColumns : ~isna(df[i][col])}

\* X = df_clean[feature_cols].values, one row per kept row, oldest first
training_matrix(df, kept) ==
    LET Kept(i) == i \in kept
        rows == SelectSeq([i \in 1..Len(df) |-> i], Kept)
    IN  [n \in 1..Len(rows) |-> [c \in 1..Len(feature_cols) |-> df[rows[n]][feature_cols[c]]]]

\* df['close'].pct_change()
pct_change(close) ==
    [i \in 1..Len(close) |->
        IF i = 1 THEN NaN
        ELSE Num(ReturnTerm("pct", close[i] - close[i - 1], close[i - 1]))]

\* analytics.calculate_rsi: rs = gain / loss with no guard: x / 0 is inf and the
\* RSI 100, 0 / 0 is NaN
rsi_unguarded(gain, loss) ==
    IF isna(gain) \/ isna(loss) THEN NaN
    ELSE IF loss = Num(0) /\ gain = Num(0) THEN NaN
    ELSE rsi_from(Val(gain), Val(loss))

\* df.iloc[-1] of calculate_technical_indicators(candles, window_size)
technical_indicators_last(close) ==
    LET ret == pct_change(close)
        delta == diff(close)
        last == Len(close)
    IN  [returns |-> ret[last],
         volatility |-> rolling_std(ret, last, window_size),
         rsi |-> rsi_unguarded(rolling_mean(gain_of(delta), last, worker_rsi_window),
                               rolling_mean(loss_of(delta), last, worker_rsi_window))]

\* train_model: df_features = ...apply(calculate_features)
CalculateFeatures ==
    /\ df_close # <<>>
    /\ df_features = <<>>
    /\ df_features' = calculate_features(df_close)
    /\ UNCHANGED <<df_close, df_clean, df_worker, sentinel_vars, now, candles, MODE,
                   classifier_vars, labelling_vars, gateway_vars, codec_vars,
                   service_vars, connector_vars, worker_vars, trainer_vars>>

\* df_clean = df_features.dropna(); X = df_clean[feature_cols].values
DropNa ==
    /\ df_features # <<>>
    /\ ~df_clean.done
    /\ df_clean' = [done |-> TRUE, kept |-> dropna(df_features),
                    X |-> training_matrix(df_features, dropna(df_features))]
    /\ UNCHANGED <<df_close, df_features, df_worker, sentinel_vars, now, candles, MODE,
                   classifier_vars, labelling_vars, gateway_vars, codec_vars,
                   service_vars, connector_vars, worker_vars, trainer_vars>>

\* classify: df = calculate_technical_indicators(candles); current_state = df.iloc[-1]
CalculateIndicators ==
    /\ df_close # <<>>
    /\ df_worker = <<>>
    /\ df_worker' = <<technical_indicators_last(df_close)>>
    /\ UNCHANGED <<df_close, df_features, df_clean, sentinel_vars, now, candles, MODE,
                   classifier_vars, labelling_vars, gateway_vars, codec_vars,
                   service_vars, connector_vars, worker_vars, trainer_vars>>

\* closes of one symbol: flat, rising, falling and alternating prices
Shapes == {"flat", "rising", "falling", "zigzag"}

PriceAt(shape, i) ==
    IF shape = "flat" THEN 5
    ELSE IF shape = "rising" THEN i
    ELSE IF shape = "falling" THEN MaxRows + 2 - i
    ELSE 5 + (i % 2)

CloseSeries == {[i \in 1..n |-> PriceAt(shape, i)] : n \in 1..MaxRows, shape \in Shapes}

\* both feature computations on any of the series
FeaturesInit == \E close \in CloseSeries :
    /\ PipelineStarts(<<>>, {}, "RULE_BASED")
    /\ ConnectorStarts
    /\ ClassifierIdle
    /\ LabellingIdle
    /\ GatewayIdle
    /\ CodecIdle
    /\ ServiceStarts
    /\ df_close = close
    /\ df_features = <<>>
    /\ df_clean = NotCleaned
    /\ df_worker = <<>>

FeaturesNext == CalculateFeatures \/ DropNa \/ CalculateIndicators

FeaturesSpec == FeaturesInit /\ [][FeaturesNext]_vars

\* ingestor, rule-based worker on a full history, and the gateway reading the KV
GatewayInit == Starts(StoredHistory(Preloaded), MarketHistory(Preloaded), "RULE_BASED")

GatewayNext ==
    \/ OnFreshCandle
    \/ XReadGroup
    \/ OnEntry
    \/ GetRegime

GatewaySpec == GatewayInit /\ [][GatewayNext]_vars

(***************************************************************************)
(* Claims                                                                  *)
(***************************************************************************)
\* a step in which handle_message handled a frame
Handled == received' = received + 1

\* C1: every handling of a closed frame with DB and stream available leaves exactly
\* one raw_candles row for the frame's (time, symbol, exchange, timeframe) key and
\* appends exactly one stream entry, so N replays leave one row and N entries; at no
\* time does a key have two rows.
C1_IdempotentIngest ==
    /\ [](\A i \in 1..Len(raw_candles) :
            Cardinality(RowsWithKey(raw_candles, KeyOf(raw_candles[i]))) = 1)
    /\ [][(Handled /\ sentinel_log' = {LogProcessed}) =>
            /\ Cardinality(RowsWithKey(raw_candles', KeyOf(CandleOf(msg')))) = 1
            /\ stream' = Append(stream, FlatEntry(CandleOf(msg')))]_vars

\* the same closed frame handled twice: two stream entries, one row
C1_Witness ==
    /\ Len(stream) = 2
    /\ stream[1] = stream[2]
    /\ stream[1].candle = CandleOf(msg)
    /\ Cardinality(RowsWithKey(raw_candles, KeyOf(stream[1].candle))) = 1

\* C2: a frame whose kline has x = false, or no x field, causes no DB insert, no
\* stream entry and no heartbeat update.
C2_OpenCandleIgnored ==
    [][(Handled /\ msg'.kind = "kline" /\ msg'.x \in {"false", "absent"}) =>
            UNCHANGED <<raw_candles, stream, last_heartbeat>>]_vars

\* an open kline was handled after the clock moved on, and nothing was written
C2_Witness ==
    /\ msg.kind = "kline"
    /\ msg.x = "absent"
    /\ msg.complete
    /\ raw_candles = <<>>
    /\ stream = <<>>
    /\ last_heartbeat < now

\* the normalisation the specification states: a trailing USDT becomes -USD, any
\* other symbol is passed through unchanged
ends_with_usdt(raw) ==
    Len(raw) >= Len(USDT) /\ SubSeq(raw, Len(raw) - Len(USDT) + 1, Len(raw)) = USDT

canonical_symbol(raw) ==
    IF ends_with_usdt(raw) THEN SubSeq(raw, 1, Len(raw) - Len(USDT)) \o DashUSD ELSE raw

\* C3: the symbol stored and published for XXXUSDT is XXX-USD, and a symbol that does
\* not end in USDT is stored and published unchanged.
C3_SymbolNormalization ==
    sentinel_log = {LogProcessed} =>
        /\ \E i \in 1..Len(raw_candles) :
              /\ raw_candles[i].symbol = canonical_symbol(msg.s)
              /\ raw_candles[i].timestamp = msg.t
        /\ stream[Len(stream)].candle.symbol = canonical_symbol(msg.s)

\* C4: every committed state of model_registry has at most one row with
\* is_active = true, whatever runs of the trainer (saved, aborted, failed) led to it.
C4_AtMostOneActive == Cardinality(ActiveRows(model_registry)) <= 1

\* a second model was promoted over the first
C4_Witness ==
    /\ trainer_pc = "saved"
    /\ Cardinality(model_registry) = 2
    /\ \E r \in model_registry : ~r.is_active
    /\ \E r \in model_registry : r.is_active /\ r.id = 2

\* C5: once a model is active, every active-model read of the worker returns the
\* parameters of an active row: never no model.
C5_ReadSeesOldOrNew ==
    [][(centroids_read'.calls # centroids_read.calls /\ ActiveRows(model_registry) # {}) =>
            centroids_read'.value \in {Some(r.parameters) : r \in ActiveRows(model_registry)}]_vars

\* the worker's handling of the entry it holds
Handles == inflight # 0 /\ inflight' = 0
HandledLog == worker_log'[Len(worker_log')]
HandledKey == KvKey(stream[inflight].candle.symbol, stream[inflight].candle.timeframe)
Acked(id) == id <= Len(worker_log) /\ id \notin pending
ProcessingFailed(id) ==
    worker_log[id] \cap {LogError("parse"), LogError("save_regime")} # {}

\* entries 1..n of one key carry non-decreasing candle times
DeliveredInOrder(n) ==
    \A i \in 1..n : \A j \in i..n :
        (/\ parses(stream[i]) /\ parses(stream[j])
         /\ stream[i].candle.symbol = stream[j].candle.symbol
         /\ stream[i].candle.timeframe = stream[j].candle.timeframe)
        => stream[i].candle.timestamp <= stream[j].candle.timestamp

C7_AckOnlyAfterSuccess ==
    \A id \in 1..Len(worker_log) :
        /\ ProcessingFailed(id) => id \in pending
        /\ Acked(id) => parses(stream[id]) /\ ~ProcessingFailed(id)

\* one entry failed and is pending, another one was processed and acked
C7_Witness ==
    \E i \in 1..Len(worker_log) : \E j \in 1..Len(worker_log) :
        /\ ProcessingFailed(i) /\ i \in pending
        /\ Acked(j) /\ worker_log[j] = {LogClassified}

\* C8: an entry left pending because saving its result raised is eventually
\* delivered again and leaves the pending list.
C8_FailedEntryRedelivered ==
    \A id \in 1..MaxFrames :
        (id <= Len(worker_log) /\ LogError("save_regime") \in worker_log[id]
         /\ id \in pending) ~> (id \notin pending)

\* C9: handling an entry whose window classifies to nothing leaves the KV store
\* as it was and takes the entry off the pending list (unless the XACK call
\* itself fails, which is the only error then logged).
C9_NoResultStillAcked ==
    [][(Handles /\ LogCouldNotClassify \in HandledLog) =>
            /\ kv' = kv
            /\ HandledLog \cap {LogError("parse"), LogError("save_regime")} = {}
            /\ inflight \notin pending' \/ LogError("xack") \in HandledLog]_vars

\* a candle whose window was too short was handled: nothing stored, entry acked
C9_Witness ==
    /\ Len(worker_log) >= 1
    /\ worker_log[1] = {LogCouldNotClassify}
    /\ parses(stream[1])
    /\ Acked(1)
    /\ \A k \in KvKeys : kv[k] = None

\* rows persisted by the ingestor for the candle's key up to the candle's time
PersistedRows(candle) ==
    {i \in 1..Len(raw_candles) :
        /\ raw_candles[i].symbol = candle.symbol
        /\ raw_candles[i].timeframe = candle.timeframe
        /\ raw_candles[i].timestamp <= candle.timestamp}

\* the entry was published by the ingestor, with more than window_size rows
\* persisted for its key, and the worker handled and acked it
HandledWithHistory(id) ==
    /\ Acked(id)
    /\ stream[id].form = "flat"
    /\ Cardinality(PersistedRows(stream[id].candle)) > window_size
    /\ LogFetchError \notin worker_log[id]

\* C10: once two ingested candles of a key, each with enough persisted history,
\* have been delivered, handled and acked, the key holds a regime result.
C10_LaterCandleClassified ==
    (\E i \in 1..Len(worker_log) : \E j \in 1..Len(worker_log) :
        /\ i < j
        /\ HandledWithHistory(i) /\ HandledWithHistory(j)
        /\ stream[i].candle.symbol = BTC_USD /\ stream[j].candle.symbol = BTC_USD
        /\ stream[i].candle.timestamp < stream[j].candle.timestamp)
    => kv[KvKey(BTC_USD, DefaultTimeframe)] # None

\* the classifier was called on a row with a volatility
Classified == cls_result.called /\ ~cls_state.volatility_nan

RuleLabels == {"BULL", "BEAR", "SIDEWAYS"} \X {"HIGH_VOL", "LOW_VOL"}

ClassifiedWithModel ==
    /\ Classified /\ MODE = "ML_CLUSTERING"
    /\ cls_model # None
    /\ Len(The(cls_model).centroids) > 0

\* C12: in ML mode with a model, regime_id is the index of a centroid at minimal
\* distance from the standardized vector, regime_label is that centroid's label
\* (CLUSTER_{j} if the model has none), and confidence is 1/(1+d_j), a number in (0, 1].
C12_NearestCentroid ==
    ClassifiedWithModel =>
        /\ cls_result.value # None
        /\ ~distance_isna(cls_state)
        /\ LET r == The(cls_result.value)
               data == The(cls_model)
           IN  /\ r.regime_id # None
               /\ LET j == The(r.regime_id) + 1
                  IN  /\ j \in 1..Len(data.centroids)
                      /\ \A o \in 1..Len(data.centroids) :
                             distance2_num(cls_state, data, j)
                                 <= distance2_num(cls_state, data, o)
                      /\ r.regime_label =
                             IF j <= Len(data.labels.names) THEN <<data.labels.names[j]>>
                             ELSE <<"CLUSTER", ToString(j - 1)>>
                      /\ r.confidence = <<"1/(1+sqrt(n/d))",
                                          distance2_num(cls_state, data, j),
                                          distance2_den(data)>>
                      /\ distance2_num(cls_state, data, j) >= 0
                      /\ distance2_den(data) > 0

\* the window of the entry being handled, and its rule-based result
HandledCandle == parse_candle_from_msg(stream[inflight])
HandledWindow ==
    merge_window(get_recent_candles(candles, HandledCandle.symbol, HandledCandle.timeframe,
                                    HistoryLimit, TRUE), HandledCandle)
HandledRuleResult ==
    _classify_rule_based(current_state(sort_index(HandledWindow)),
                         HandledWindow[Len(HandledWindow)])

\* the handling loaded the model and got none
ModelReadFailed ==
    /\ inflight # 0 /\ inflight' = 0
    /\ centroids_read'.calls # centroids_read.calls
    /\ centroids_read'.value = None

worker_column(col) ==
    IF col = "log_return" THEN "returns"
    ELSE IF col = "volatility_24h" THEN "volatility"
    ELSE IF col = "rsi_14" THEN "rsi"
    ELSE col

\* C14: the i-th component of the vector compared with the centroids is the feature
\* named feature_cols[i] in the model record.
C14_VectorFollowsFeatureCols ==
    (ClassifiedWithModel /\ The(cls_model).feature_cols # <<>>) =>
        /\ Len(cls_vector) = Len(The(cls_model).feature_cols)
        /\ \A i \in 1..Len(cls_vector) :
               cls_vector[i].name = worker_column(The(cls_model).feature_cols[i])

\* C15: GET /health returns 200 exactly when now - heartbeat < T and 503 otherwise,
\* and right after a closed candle was processed it returns 200.
C15_HealthStatus ==
    /\ [](/\ health_check \in {200, 503}
          /\ health_check = 200 <=> now - last_heartbeat < LIVENESS_THRESHOLD_SECONDS)
    /\ [][(Handled /\ LogProcessed \in sentinel_log') => health_check' = 200]_vars

\* T seconds passed without a candle (503), then the first closed candle was
\* processed: 200 again
C15_Witness ==
    /\ received = 1
    /\ LogProcessed \in sentinel_log
    /\ now >= LIVENESS_THRESHOLD_SECONDS
    /\ last_heartbeat = now
    /\ health_check = 200

\* lines that only an exception leaving a handler would produce
EscapeLines ==
    {LogWsError(c) : c \in {"parse", "insert_candle", "publish"}}
    \cup {LogLoopError(c) : c \in {"parse", "save_regime", "xack"}}

\* C16: whatever the message and whichever call fails, handle_message and the
\* worker's per-entry block end without an exception leaving them: the message is
\* consumed, the worker holds no entry, no line of an outer handler is logged.
C16_NoExceptionEscapes ==
    /\ [](/\ sentinel_log \cap EscapeLines = {}
          /\ \A id \in 1..Len(worker_log) : worker_log[id] \cap EscapeLines = {})
    /\ [][/\ Handled => received' = received + 1
          /\ Handles => Len(worker_log') = Len(worker_log) + 1 /\ inflight' = 0]_vars

\* after an entry that failed to parse and a frame whose insert failed, the next
\* frame was processed and the next entry classified
C16_Witness ==
    /\ received = 2 /\ sentinel_log = {LogProcessed}
    /\ Len(raw_candles) = 1 /\ Len(stream) = 2
    /\ Len(worker_log) = 2
    /\ worker_log[1] = {LogError("parse")}
    /\ worker_log[2] = {LogClassified}

\* C17: a closed candle whose insert failed appends no stream entry, inserts no
\* row and leaves the heartbeat; every candle processed afterwards has its row.
C17_InsertFailureAborts ==
    [][/\ (Handled /\ LogError("insert_candle") \in sentinel_log') =>
              UNCHANGED <<raw_candles, stream, last_heartbeat>>
       /\ (Handled /\ LogProcessed \in sentinel_log') =>
              Cardinality(RowsWithKey(raw_candles', KeyOf(CandleOf(msg')))) = 1]_vars

\* an insert failed some time after start: nothing stored, nothing published,
\* heartbeat not touched
C17_Witness ==
    /\ sentinel_log = {LogError("insert_candle")}
    /\ msg.kind = "kline" /\ msg.x = "true" /\ msg.complete
    /\ raw_candles = <<>> /\ stream = <<>>
    /\ last_heartbeat < now

\* C18: when the publish fails after the insert, the row is there, the handler
\* goes on as after a success (the failure is logged by the producer only), the
\* stream is left as it was, and a handling appends at most the entry of its own
\* message.
C18_PublishFailureMovesOn ==
    [][/\ (Handled /\ LogPublishFailed \in sentinel_log') =>
              /\ Cardinality(RowsWithKey(raw_candles', KeyOf(CandleOf(msg')))) = 1
              /\ stream' = stream
              /\ sentinel_log' = {LogPublishFailed, LogProcessed}
       /\ Handled =>
              \/ stream' = stream
              \/ stream' = Append(stream, FlatEntry(CandleOf(msg')))]_vars

\* a publish failed, then the next message was processed and published
C18_Witness ==
    /\ received = 2
    /\ sentinel_log = {LogProcessed}
    /\ Len(raw_candles) = 2
    /\ Len(stream) = 1
    /\ stream[1].candle = CandleOf(msg)

ParseFailure(m) ==
    \/ m.kind \in {"not_json", "no_k"}
    \/ m.kind = "kline" /\ m.x = "true" /\ ~m.complete

\* C19: a frame that is not JSON, has no k, or whose closed kline lacks a field or
\* carries a non-numeric one changes neither the table, nor the stream, nor the
\* heartbeat, and is consumed.
C19_ParseFailureDropped ==
    [][(Handled /\ ParseFailure(msg')) =>
            /\ UNCHANGED <<raw_candles, stream, last_heartbeat>>
            /\ LogProcessed \notin sentinel_log']_vars

\* a closed kline with a bad field was logged and dropped
C19_Witness ==
    /\ msg.kind = "kline" /\ msg.x = "true" /\ ~msg.complete
    /\ sentinel_log = {LogError("parse")}
    /\ raw_candles = <<>> /\ stream = <<>>
    /\ last_heartbeat < now

\* C20: the sleep after the (n+1)-th WebSocket error since the last received
\* message is min(60, 2^n) seconds.
C20_BackoffSchedule ==
    [][ws_errors' = ws_errors + 1 => slept' = Min(BackoffCap, 2 ^ ws_errors)]_vars

\* C21: once stop() has been called, start() takes no further message in for
\* handling: only a message that was already being handled is completed.
C21_StopTakesNoNewMessage ==
    [][~running => ~(in_flight = NoMsg /\ in_flight' # NoMsg)]_vars

\* C30: when stop() has been called and start() is sleeping in the reconnection
\* backoff, the next thing start() does is return: it sleeps no further second and
\* opens no connection.
C30_StopEndsBackoff ==
    [][(~running /\ ws = "sleeping") =>
            (ws' = "returned" \/ UNCHANGED connector_vars)]_vars

\* C22: a trainer run that aborts (no data, or no rows after the features) or
\* whose persistence raises leaves model_registry exactly as it was: the active
\* model stays active and no new row is visible.
C22_FailedRunKeepsRegistry ==
    [][trainer_pc' \in {"aborted", "failed"} => model_registry' = model_registry]_vars

\* a model is active, and a later run failed at commit: the registry still holds
\* that one active row only
C22_Witness ==
    /\ trainer_pc = "failed"
    /\ Cardinality(model_registry) = 1
    /\ Cardinality(ActiveRows(model_registry)) = 1

\* C23: auto-labelling gives every centroid index 0..k-1 exactly one label: PANIC
\* to one centroid maximizing z_vol - z_ret, BULL to one centroid with the highest
\* inverse-transformed return among the others, REGIME_{i} to each remaining
\* centroid i; PANIC and BULL appear exactly once each, on different centroids.
C23_AutoLabels ==
    regime_labels # None =>
        LET labels == The(regime_labels)
            panics == {i \in Clusters : labels[i] = LabelPanic}
            bulls == {i \in Clusters : labels[i] = LabelBull}
        IN  /\ DOMAIN labels = Clusters
            /\ Cardinality(panics) = 1
            /\ Cardinality(bulls) = 1
            /\ panics \cap bulls = {}
            /\ \A p \in panics, j \in Clusters :
                   fit.centroids[p + 1][2] - fit.centroids[p + 1][1]
                       >= fit.centroids[j + 1][2] - fit.centroids[j + 1][1]
            /\ \A b \in bulls, j \in Clusters \ panics :
                   avg_ret(fit, b) >= avg_ret(fit, j)
            /\ \A i \in Clusters \ (panics \cup bulls) : labels[i] = LabelRegime(i)

\* the centroid with the strictly highest return is the PANIC one (its volatility
\* is the highest too), so BULL went to another centroid
C23_Witness ==
    /\ regime_labels # None
    /\ \E p \in Clusters :
           /\ The(regime_labels)[p] = LabelPanic
           /\ \A j \in Clusters \ {p} : avg_ret(fit, p) > avg_ret(fit, j)
    /\ \E b \in Clusters : The(regime_labels)[b] = LabelBull

\* C24: whatever the other query parameters, GET /v1/regime answers 404 when the
\* key regime:{symbol}:{timeframe} is absent and the stored value otherwise.
C24_AbsentKeyIs404 ==
    [][gateway_vars' # gateway_vars =>
          LET stored == kv[KvKey(gw_request'.symbol, gw_request'.timeframe)]
          IN  IF stored = None
              THEN gw_response'.status = 404
              ELSE gw_response'.status = 200 /\ gw_response'.body = stored]_vars

\* C25: the flat field map of a candle and the single payload field carrying the
\* same candle JSON-encoded parse to the same Candle, the one serialized.
C25_SameCandleFromBothForms ==
    (parsed_candle.flat # <<>> /\ parsed_candle.payload # <<>>) =>
        /\ parsed_candle.flat = parsed_candle.payload
        /\ parsed_candle.flat[1] = Some(wire_candle)

\* a candle with a non-zero price parsed from both of its entries
C25_Witness ==
    /\ wire_candle.close = MaxPrice
    /\ parsed_candle.flat = <<Some(wire_candle)>>
    /\ parsed_candle.payload = <<Some(wire_candle)>>

\* C26: after any number of publishes the stream market_data_feed is no longer
\* than the configured maximum: the producer trims the oldest entries on publish.
C26_StreamBounded == Len(stream) <= StreamMaxLen

\* C27: for every delivered candle, a duplicate or late delivery of a stored
\* candle included, the merged feature window holds exactly one candle per
\* timestamp and holds a candle with the incoming candle's timestamp.
C27_OneCandlePerTimestamp ==
    (inflight # 0 /\ parses(stream[inflight])) =>
        /\ \A i, j \in 1..Len(HandledWindow) :
               HandledWindow[i].timestamp = HandledWindow[j].timestamp => i = j
        /\ \E i \in 1..Len(HandledWindow) :
               HandledWindow[i].timestamp = HandledCandle.timestamp

\* C28: with a single consumer the entries are handled in stream append order:
\* an entry is delivered only when no entry is in flight and every entry
\* delivered before it has been handled, it is the entry appended right after
\* the last delivered one, and the n-th handling that finishes is that of the
\* n-th entry of the stream.
C28_OneEntryInFlightInOrder ==
    [][/\ (inflight' # inflight /\ inflight' # 0) =>
              /\ inflight = 0
              /\ inflight' = cursor + 1
              /\ Len(worker_log) = cursor
       /\ (inflight # 0 /\ inflight' # inflight) =>
              /\ inflight' = 0
              /\ Len(worker_log') = inflight]_vars

\* two entries were delivered and handled one after the other, and a third is
\* in flight
C28_Witness == Len(worker_log) = 2 /\ cursor = 3 /\ inflight = 3

\* the message just handled is a closed candle that was inserted and published
InsertedAndPublished ==
    /\ msg'.kind = "kline"
    /\ is_closed(msg')
    /\ sentinel_log' = {LogProcessed}
    /\ Cardinality(RowsWithKey(raw_candles', KeyOf(CandleOf(msg')))) = 1
    /\ stream' = publish_candle(stream, CandleOf(msg'))

\* C29: a message updates the heartbeat if and only if it is a closed candle
\* whose insert and whose publish both succeeded; nothing else changes the
\* heartbeat.
C29_HeartbeatIffInsertedAndPublished ==
    [][/\ last_heartbeat' # last_heartbeat => (Handled /\ InsertedAndPublished)
       /\ (Handled /\ InsertedAndPublished) => last_heartbeat' = now]_vars

\* C31: after the shutdown signal the worker takes no new stream entry, and it
\* closes its stream client only after the signal and with no entry left in
\* flight: the entry it was handling has gone through its handling and XACK.
C31_NoNewEntryAfterSignal ==
    [][/\ ~engine_running => (inflight' = inflight \/ inflight' = 0)
       /\ engine_pc' = "closed" => (~engine_running' /\ inflight' = 0)]_vars

\* C32: every entry of the stream is the entry of a candle that has its row in
\* raw_candles: the ingestor publishes only after the insert, or its conflict
\* no-op, has returned.
C32_PublishedCandleIsStored ==
    \A i \in 1..Len(stream) :
        /\ RowsWithKey(raw_candles, KeyOf(stream[i].candle)) # {}
        /\ stream[i] = FlatEntry(stream[i].candle)

\* one candle was inserted and published; the insert of another one failed and
\* nothing was published for it
C32_Witness ==
    /\ received = 2
    /\ Len(stream) = 1
    /\ Len(raw_candles) = 1
    /\ sentinel_log = {LogError("insert_candle")}
    /\ KeyOf(CandleOf(msg)) # KeyOf(stream[1].candle)

\* C33: once the trainer has promoted a model, an ML_CLUSTERING worker that
\* classifies a candle has loaded the parameters of an active registry row and
\* writes a result of the model (with a regime_id), not the rule-based one.
C33_PromotedModelIsUsed ==
    [][(/\ Handles
        /\ MODE = "ML_CLUSTERING"
        /\ ActiveRows(model_registry) # {}
        /\ LogClassified \in HandledLog) =>
            /\ centroids_read'.calls # centroids_read.calls
            /\ centroids_read'.value \in
                   {Some(r.parameters) : r \in ActiveRows(model_registry)}
            /\ LogError("save_regime") \notin HandledLog =>
                   The(kv'[HandledKey]).regime_id # None]_vars

\* timestamps of the rows the ingestor has persisted for the key of the candle
PersistedTimes(candle) ==
    {raw_candles[i].timestamp : i \in {j \in 1..Len(raw_candles) :
        /\ raw_candles[j].symbol = candle.symbol
        /\ raw_candles[j].timeframe = candle.timeframe}}

\* C34: while the worker handles a candle, every candle the ingestor has
\* persisted for that (symbol, timeframe) and that is among the HistoryLimit
\* most recent ones is in the history the worker's fetch returns.
C34_FetchReturnsPersisted ==
    (inflight # 0 /\ parses(stream[inflight])) =>
        LET fetched == get_recent_candles(candles, HandledCandle.symbol,
                                          HandledCandle.timeframe, HistoryLimit, TRUE)
            persisted == PersistedTimes(HandledCandle)
            recent == {t \in persisted :
                          Cardinality({u \in persisted : u > t}) < HistoryLimit}
        IN  \A t \in recent : \E i \in 1..Len(fetched) : fetched[i].timestamp = t

\* row i lies inside the warm-up prefix of a feature with this rolling period:
\* it has fewer prior candles than the period
InWarmUp(i, period) == i - 1 < period

\* C35: in the output of the feature library every feature of a row inside that
\* feature's warm-up prefix (24 for volatility, 50 for the SMA, 14 for the RSI)
\* is NaN.
C35_WarmUpIsNaN ==
    \A i \in 1..Len(df_features) :
        /\ InWarmUp(i, volatility_window) => isna(df_features[i].volatility_24h)
        /\ InWarmUp(i, sma_window) => isna(df_features[i].sma_50)
        /\ InWarmUp(i, rsi_window) => isna(df_features[i].rsi_14)

\* the rows of the feature frame whose selected columns all carry a number
SelectedNotNaN ==
    {i \in 1..Len(df_features) :
        \A n \in 1..Len(feature_cols) : ~isna(df_features[i][feature_cols[n]])}

\* C36: the training matrix holds exactly the feature rows whose selected
\* columns (log_return, volatility, rsi) are all non-NaN, one matrix row each
\* with the values of those columns.
C36_DroppedIffSelectedNaN ==
    df_clean.done =>
        /\ df_clean.kept = SelectedNotNaN
        /\ df_clean.X = training_matrix(df_features, SelectedNotNaN)

\* C37: for the same candle sequence the volatility and the rsi the worker
\* classifies the last candle on are the ones the trainer's feature library
\* computes for that candle.
C37_WorkerFeaturesAreTrainerFeatures ==
    (df_features # <<>> /\ df_worker # <<>>) =>
        /\ df_worker[1].volatility = df_features[Len(df_features)].volatility_24h
        /\ df_worker[1].rsi = df_features[Len(df_features)].rsi_14

C39_UnparsableEntryStaysPending ==
    /\ [](\A id \in 1..cursor : ~parses(stream[id]) => id \in pending)
    /\ [][(Handles /\ ~parses(stream[inflight])) =>
              /\ HandledLog = {LogError("parse")}
              /\ kv' = kv
              /\ inflight' = 0
              /\ cursor' = cursor]_vars

\* an unparsable entry was handled and is pending; the entry after it was
\* parsed, handled and acked
C39_Witness ==
    /\ Len(worker_log) = 2
    /\ ~parses(stream[1]) /\ 1 \in pending
    /\ worker_log[1] = {LogError("parse")}
    /\ parses(stream[2]) /\ Acked(2)

\* C40: when the history fetch of an entry fails, the worker classifies on the
\* incoming candle alone, which yields no result: nothing is written to the KV
\* store, no processing error is logged, and the entry is acked (it stays
\* pending only if the XACK call itself fails); it is not read again.
C40_FetchFailureIsNoResult ==
    [][(Handles /\ LogFetchError \in HandledLog) =>
            /\ LogCouldNotClassify \in HandledLog
            /\ HandledLog \subseteq {LogFetchError, LogCouldNotClassify, LogError("xack")}
            /\ kv' = kv
            /\ inflight \notin pending' \/ LogError("xack") \in HandledLog
            /\ cursor' = cursor]_vars

\* the fetch failed for a candle whose table holds a full history: no result,
\* and the entry is acked
C40_Witness ==
    /\ Len(worker_log) >= 1
    /\ worker_log[1] = {LogFetchError, LogCouldNotClassify}
    /\ Cardinality(candles) >= window_size
    /\ Acked(1)
    /\ \A key \in KvKeys : kv[key] = None


====
